---- MODULE Spec2Model ----
(***************************************************************************)
(* Model of the authoritative room TurnBasedRAFRoom                        *)
(* (src/server/src/rooms/TurnBasedRAFRoom.ts): replicated RAFState, the    *)
(* room's private bookkeeping, the message handlers registered in          *)
(* onCreate, onJoin, onLeave and fixedTick.                                *)
(*                                                                         *)
(* Conventions                                                             *)
(*  - The room is one record (see Room below); every handler is an         *)
(*    operator from a room record (and the handler's inputs) to the room   *)
(*    record after the handler returned.  Helper methods (advanceTurn,     *)
(*    checkWinCondition, ...) are operators of the same shape, so a        *)
(*    handler that calls them several times composes them as the code does.*)
(*  - Session ids are strings, "" is the empty id of the code.  The k-th   *)
(*    session to connect is named SessionPool[k] (session ids are opaque   *)
(*    and unique per connection).                                          *)
(*  - Creature ids are the positive integers in creation order, so the     *)
(*    insertion order of the MapSchema is the numeric order of its keys;   *)
(*    NoCreature (0) is the empty activeCreatureId "".                     *)
(*  - Date.now() is the variable now; it only moves in ClockAdvance.       *)
(*  - Random choices (crate id) and the outcome of the physics step (which *)
(*    bodies end below the drown line) are inputs of the actions.          *)
(***************************************************************************)
EXTENDS Integers, Sequences, FiniteSets, TLC

\* ---------------------------------------------------------------- bounds
NumCrateIds == 2        \* distinct values generateId can return for a crate
MaxHits == 2            \* length of the hit list of one applyDamage message
MaxSunk == 2            \* bodies that sink below the drown line in one tick
MaxEvents == 3          \* events (handler calls, clock advances) in one run
MaxSegments == 3
MaxLobby == 3           \* sessions that connected before a run starts
MaxGradedHits == 1      \* length of a hit list in the runs of SpecDamage
MaxTurnsWatched == 8    \* successive turn timeouts a claim follows

\* ------------------------------------------------------ program constants
maxClients == 8
turnDurationMs == 30000
retreatMs == 5000
disconnectGraceMs == 300000
snapshotIntervalMs == 50
creaturesPerJoin == 3
initialHp == 100
maxDmg == 200
segments == 240
initialWaterline == 560
terrainPointsLength == 2 * (segments + 1)   \* flattened [x0,y0,x1,y1,...]

NoCreature == 0     \* the empty activeCreatureId / a creature id no creature has
NoCrate == 0        \* a missing crateId field

SessionPool == <<"s1", "s2", "s3", "s4">>
NumSessions == Len(SessionPool)
Sessions == {SessionPool[k] : k \in 1..NumSessions}
CrateIds == 1..NumCrateIds
\* A dmg field of a hit, by what Number(dmg) makes of it: the number n, or
\* NaN for a field that is missing or holds no numeric value.
Numeric(n) == [nan |-> FALSE, n |-> n]
NotNumeric == [nan |-> TRUE, n |-> 0]
\* dmg fields a client may send
DmgValues == {Numeric(250)}
\* clock increments between two events
ClockSteps == {5000, 30000, 300000}

VARIABLES
  \* RAFState (replicated)
  creatures,              \* creature id -> [ownerSessionId, hp]
  activePlayerSessionId,
  activeCreatureId,
  turnRemainingMs,
  playerNames,            \* set of session ids that have a name entry
  disconnectedUntil,      \* session id -> epoch ms
  winnerSessionId,
  crates,                 \* crate id -> [weapon]
  weaponsByPlayer,        \* session id -> weapon
  \* private fields of the room
  joinOrder,
  lastCreatureIndexByPlayer,
  turnEndsAt,
  creatureBodies,         \* ids that have a Matter body
  crateBodies,
  lastSnapshotAt,
  latestInput,
  jumpQueued,
  createdOnJoinIds,       \* session id -> sequence of creature ids
  \* the island
  terrainPoints,          \* RAFState: flattened [x0,y0,x1,y1,...]
  waterline,              \* RAFState
  terrainBodies,          \* the static segments of the collision terrain
  \* environment
  now,                    \* Date.now()
  clients,                \* sessions currently connected to the room
  joined,                 \* number of sessions that have connected so far
  handled                 \* number of events so far

vars == <<creatures, activePlayerSessionId, activeCreatureId, turnRemainingMs,
          playerNames, disconnectedUntil, winnerSessionId, crates,
          weaponsByPlayer, joinOrder, lastCreatureIndexByPlayer, turnEndsAt,
          creatureBodies, crateBodies, lastSnapshotAt, latestInput, jumpQueued,
          createdOnJoinIds, terrainPoints, waterline, terrainBodies,
          now, clients, joined, handled>>

\* The room as one record: the value the handlers transform.
Room ==
  [creatures |-> creatures,
   activePlayerSessionId |-> activePlayerSessionId,
   activeCreatureId |-> activeCreatureId,
   turnRemainingMs |-> turnRemainingMs,
   playerNames |-> playerNames,
   disconnectedUntil |-> disconnectedUntil,
   winnerSessionId |-> winnerSessionId,
   crates |-> crates,
   weaponsByPlayer |-> weaponsByPlayer,
   joinOrder |-> joinOrder,
   lastCreatureIndexByPlayer |-> lastCreatureIndexByPlayer,
   turnEndsAt |-> turnEndsAt,
   creatureBodies |-> creatureBodies,
   crateBodies |-> crateBodies,
   lastSnapshotAt |-> lastSnapshotAt,
   latestInput |-> latestInput,
   jumpQueued |-> jumpQueued,
   createdOnJoinIds |-> createdOnJoinIds,
   now |-> now]

\* The handler returned with the room r.
Becomes(r) ==
  /\ creatures' = r.creatures
  /\ activePlayerSessionId' = r.activePlayerSessionId
  /\ activeCreatureId' = r.activeCreatureId
  /\ turnRemainingMs' = r.turnRemainingMs
  /\ playerNames' = r.playerNames
  /\ disconnectedUntil' = r.disconnectedUntil
  /\ winnerSessionId' = r.winnerSessionId
  /\ crates' = r.crates
  /\ weaponsByPlayer' = r.weaponsByPlayer
  /\ joinOrder' = r.joinOrder
  /\ lastCreatureIndexByPlayer' = r.lastCreatureIndexByPlayer
  /\ turnEndsAt' = r.turnEndsAt
  /\ creatureBodies' = r.creatureBodies
  /\ crateBodies' = r.crateBodies
  /\ lastSnapshotAt' = r.lastSnapshotAt
  /\ latestInput' = r.latestInput
  /\ jumpQueued' = r.jumpQueued
  /\ createdOnJoinIds' = r.createdOnJoinIds
  /\ now' = r.now
  /\ UNCHANGED <<terrainPoints, waterline, terrainBodies>>

\* ------------------------------------------------------------ map helpers
EmptyMap == [k \in {} |-> 0]
MapSet(m, k, v) == [x \in DOMAIN m \cup {k} |-> IF x = k THEN v ELSE m[x]]
MapDelete(m, k) == [x \in DOMAIN m \ {k} |-> m[x]]
Max(a, b) == IF a >= b THEN a ELSE b
Min(a, b) == IF a <= b THEN a ELSE b

\* Array.prototype.indexOf, 0-based, -1 when absent
IndexOf(seq, x) ==
  IF \E i \in 1..Len(seq) : seq[i] = x
    THEN (CHOOSE i \in 1..Len(seq) : seq[i] = x /\ \A j \in 1..(i - 1) : seq[j] # x) - 1
    ELSE -1

\* the elements of a finite set of integers in increasing order
RECURSIVE Ascending(_)
Ascending(S) ==
  IF S = {} THEN <<>>
  ELSE LET m == CHOOSE x \in S : \A y \in S : x <= y
       IN <<m>> \o Ascending(S \ {m})

\* -------------------------------------------------------- helper methods

\* the set of owners that occur among the creatures of the replicated state
OwnersOf(cs) == {cs[c].ownerSessionId : c \in DOMAIN cs}

\* distinctOwnersWithAlive: owners of creatures, filtered through joinOrder
distinctOwnersWithAlive(r) ==
  SelectSeq(r.joinOrder, LAMBDA id : id \in OwnersOf(r.creatures))

\* isDisconnected
isDisconnected(r, sessionId) ==
  /\ sessionId \in DOMAIN r.disconnectedUntil
  /\ r.disconnectedUntil[sessionId] > r.now

\* removeCreatureBody
removeCreatureBody(r, id) ==
  [r EXCEPT !.creatureBodies = @ \ {id}]

\* checkWinCondition: the room after the call (the boolean result is WinReached)
WinReached(r) == Len(distinctOwnersWithAlive(r)) <= 1

checkWinCondition(r) ==
  LET owners == distinctOwnersWithAlive(r) IN
  IF Len(owners) <= 1
    THEN [r EXCEPT !.winnerSessionId = IF Len(owners) = 1 THEN owners[1] ELSE "",
                   !.activePlayerSessionId = "",
                   !.activeCreatureId = NoCreature,
                   !.turnRemainingMs = 0]
    ELSE r

\* a selection that always takes the first creature of the player
pickFirstCreatureForPlayer(r, sessionId) ==
  LET all == Ascending({c \in DOMAIN r.creatures :
                          r.creatures[c].ownerSessionId = sessionId})
  IN IF Len(all) = 0 THEN [r EXCEPT !.activeCreatureId = NoCreature]
     ELSE [r EXCEPT !.activeCreatureId = all[1],
                    !.lastCreatureIndexByPlayer = MapSet(@, sessionId, 0)]

\* pickNextCreatureForPlayer.  Every element of `all` is a key of creatures, so
\* the loop returns in its first iteration that finds one (i = 1).
pickNextCreatureForPlayer(r, sessionId) ==
  LET all == Ascending({c \in DOMAIN r.creatures :
                          r.creatures[c].ownerSessionId = sessionId})
      lastIdx == IF sessionId \in DOMAIN r.lastCreatureIndexByPlayer
                   THEN r.lastCreatureIndexByPlayer[sessionId] ELSE -1
      hits == {i \in 1..Len(all) :
                 all[((lastIdx + i) % Len(all)) + 1] \in DOMAIN r.creatures}
  IN
  IF Len(all) = 0 THEN [r EXCEPT !.activeCreatureId = NoCreature]
  ELSE IF hits # {}
    THEN LET i == CHOOSE k \in hits : \A j \in hits : k <= j
             idx == (lastIdx + i) % Len(all)
         IN [r EXCEPT !.activeCreatureId = all[idx + 1],
                      !.lastCreatureIndexByPlayer = MapSet(@, sessionId, idx)]
    ELSE [r EXCEPT !.activeCreatureId = all[1],
                   !.lastCreatureIndexByPlayer = MapSet(@, sessionId, 0)]

\* a spawn that leaves the crates of earlier turns in the world
spawnCrateKeepingOld(r, crateId) ==
  [r EXCEPT !.crates = MapSet(@, crateId, [weapon |-> "grenade"]),
            !.crateBodies = @ \cup {crateId}]

\* a spawn that clears the replicated crates and leaves their bodies
spawnCrateLeavingBodies(r, crateId) ==
  [r EXCEPT !.crates = MapSet(EmptyMap, crateId, [weapon |-> "grenade"]),
            !.crateBodies = @ \cup {crateId}]

\* spawnCrate; crateId is the id generateId returns for the new crate
spawnCrate(r, crateId) ==
  LET ids == DOMAIN r.crates
      cleared == [r EXCEPT !.crates = EmptyMap,
                           !.crateBodies = @ \ ids]
  IN
  IF terrainPointsLength < 4 THEN cleared
  ELSE [cleared EXCEPT !.crates = MapSet(@, crateId, [weapon |-> "grenade"]),
                       !.crateBodies = @ \cup {crateId}]

\* a turn start that keeps a deadline that is still in the future
startTurnKeepingDeadline(r, cand, crateId) ==
  spawnCrate(
    [pickNextCreatureForPlayer([r EXCEPT !.activePlayerSessionId = cand], cand)
       EXCEPT !.turnEndsAt = IF r.turnEndsAt > r.now THEN r.turnEndsAt
                             ELSE r.now + turnDurationMs,
              !.turnRemainingMs = turnDurationMs],
    crateId)

\* advanceTurn; crateId is the id of the crate a new turn spawns
startTurn(r, cand, crateId) ==
  spawnCrate(
    [pickNextCreatureForPlayer([r EXCEPT !.activePlayerSessionId = cand], cand)
       EXCEPT !.turnEndsAt = r.now + turnDurationMs,
              !.turnRemainingMs = turnDurationMs],
    crateId)

noActivePlayer(r) ==
  [r EXCEPT !.activePlayerSessionId = "",
            !.activeCreatureId = NoCreature,
            !.turnRemainingMs = 0]

\* a candidate loop that starts at the current player
candidateIndexFromCurrent(currentIdx, step, n) == (currentIdx + step - 1) % n

\* the index (0-based) of the candidate the loop of advanceTurn tries at `step`
candidateIndex(currentIdx, step, n) == (currentIdx + step) % n

advanceTurn(r, crateId) ==
  IF WinReached(r) THEN checkWinCondition(r)
  ELSE
    LET playersWithAlive == distinctOwnersWithAlive(r)
        n == Len(playersWithAlive)
        currentIdx == Max(0, IndexOf(playersWithAlive, r.activePlayerSessionId))
        candAt(step) == playersWithAlive[candidateIndex(currentIdx, step, n) + 1]
        ok == {step \in 1..n : ~isDisconnected(r, candAt(step))}
    IN
    IF n = 0 THEN noActivePlayer(r)
    ELSE IF ok # {}
      THEN startTurn(r, candAt(CHOOSE s \in ok : \A t \in ok : s <= t), crateId)
      ELSE noActivePlayer(r)

\* ------------------------------------------------------ message handlers

\* onMessage("input")
onInput(r, sender, left, right) ==
  IF sender # r.activePlayerSessionId THEN r
  ELSE [r EXCEPT !.latestInput = [left |-> left, right |-> right, jump |-> FALSE]]

\* a jump handler that does not look at the sender
onJumpAnySender(r, sender) ==
  [r EXCEPT !.jumpQueued = TRUE]

\* onMessage("jump")
onJump(r, sender) ==
  IF sender # r.activePlayerSessionId THEN r
  ELSE [r EXCEPT !.jumpQueued = TRUE]

\* a pickup that leaves the crate's body in the physics world
onPickupCrateLeavingBody(r, sender, crateId, bySessionId) ==
  IF sender # r.activePlayerSessionId THEN r
  ELSE IF crateId = NoCrate \/ bySessionId = "" THEN r
  ELSE IF crateId \notin DOMAIN r.crates THEN r
  ELSE [r EXCEPT !.weaponsByPlayer = MapSet(@, bySessionId, r.crates[crateId].weapon),
                 !.crates = MapDelete(@, crateId)]

\* onMessage("pickupCrate")
onPickupCrate(r, sender, crateId, bySessionId) ==
  IF sender # r.activePlayerSessionId THEN r
  ELSE IF crateId = NoCrate \/ bySessionId = "" THEN r
  ELSE IF crateId \notin DOMAIN r.crates THEN r
  ELSE [r EXCEPT !.weaponsByPlayer = MapSet(@, bySessionId, r.crates[crateId].weapon),
                 !.crates = MapDelete(@, crateId),
                 !.crateBodies = @ \ {crateId}]

\* a consumeWeapon that adds the retreat window to the running deadline
onConsumeWeaponAddsTime(r, sender) ==
  IF sender \notin DOMAIN r.weaponsByPlayer THEN r
  ELSE [r EXCEPT !.weaponsByPlayer = MapDelete(@, sender),
                 !.turnEndsAt = @ + retreatMs,
                 !.turnRemainingMs = @ + retreatMs]

\* onMessage("consumeWeapon")
onConsumeWeapon(r, sender) ==
  IF sender \notin DOMAIN r.weaponsByPlayer THEN r
  ELSE [r EXCEPT !.weaponsByPlayer = MapDelete(@, sender),
                 !.turnEndsAt = r.now + retreatMs,
                 !.turnRemainingMs = retreatMs]

\* onMessage("applyDamage"), first loop: clamp, subtract, collect the dead.
\* The result is <<creatures, toDelete>>.
\* a clamp that bounds the damage from above only
clampDmgUpperOnly(dmg) == Min(maxDmg, dmg)

clampDmg(dmg) == Max(0, Min(maxDmg, dmg))

\* Number(dmg) || 0
numberOrZero(dmg) == IF dmg.nan THEN 0 ELSE dmg.n

RECURSIVE applyHits(_, _, _)
applyHits(cs, toDelete, hits) ==
  IF hits = <<>> THEN <<cs, toDelete>>
  ELSE LET h == Head(hits) IN
       IF h.id \notin DOMAIN cs THEN applyHits(cs, toDelete, Tail(hits))
       ELSE LET hp == Max(0, cs[h.id].hp - clampDmg(numberOrZero(h.dmg)))
                cs2 == [cs EXCEPT ![h.id].hp = hp]
            IN applyHits(cs2,
                         IF hp <= 0 THEN Append(toDelete, h.id) ELSE toDelete,
                         Tail(hits))

\* a removal that re-evaluates nothing unless the active creature died
removeDamagedNoWinCheck(r, id, crateId) ==
  LET wasActive == id = r.activeCreatureId
      gone == removeCreatureBody([r EXCEPT !.creatures = MapDelete(@, id)], id)
  IN IF wasActive THEN advanceTurn(gone, crateId) ELSE gone

\* one iteration of the removal loop of applyDamage
removeDamaged(r, id, crateId) ==
  LET wasActive == id = r.activeCreatureId
      gone == removeCreatureBody([r EXCEPT !.creatures = MapDelete(@, id)], id)
  IN IF wasActive THEN advanceTurn(gone, crateId) ELSE checkWinCondition(gone)

RECURSIVE removeAllDamaged(_, _, _)
removeAllDamaged(r, toDelete, crateId) ==
  IF toDelete = <<>> THEN r
  ELSE removeAllDamaged(removeDamaged(r, Head(toDelete), crateId),
                        Tail(toDelete), crateId)

\* onMessage("applyDamage"); isArray: message.hits is an array
onApplyDamage(r, sender, isArray, hits, crateId) ==
  IF sender # r.activePlayerSessionId THEN r
  ELSE IF ~isArray THEN r
  ELSE LET res == applyHits(r.creatures, <<>>, hits)
       IN removeAllDamaged([r EXCEPT !.creatures = res[1]], res[2], crateId)

\* onMessage("takeover")
RECURSIVE deleteCreatures(_, _)
deleteCreatures(cs, ids) ==
  IF ids = <<>> THEN cs ELSE deleteCreatures(MapDelete(cs, Head(ids)), Tail(ids))

\* a guard that accepts every marked session, also one whose grace is over
withinGraceOrPast(r, target) ==
  target \in DOMAIN r.disconnectedUntil

\* the guard of takeover: the target is marked disconnected and its
\* timestamp lies ahead
withinGrace(r, target) ==
  /\ target \in DOMAIN r.disconnectedUntil
  /\ r.disconnectedUntil[target] > r.now

\* a transfer that compares the owner with the claimant instead of the target
transferCreaturesOfClaimant(cs, target, sender) ==
  [c \in DOMAIN cs |->
     IF cs[c].ownerSessionId = sender
       THEN [cs[c] EXCEPT !.ownerSessionId = sender]
       ELSE cs[c]]

\* the transfer loop of takeover: every creature of the target goes to the
\* claimant
transferCreatures(cs, target, sender) ==
  [c \in DOMAIN cs |->
     IF cs[c].ownerSessionId = target
       THEN [cs[c] EXCEPT !.ownerSessionId = sender]
       ELSE cs[c]]

onTakeover(r, sender, target) ==
  IF target = "" \/ target = sender THEN r
  ELSE IF ~withinGrace(r, target) THEN r
  ELSE
    LET mine == IF sender \in DOMAIN r.createdOnJoinIds
                  THEN r.createdOnJoinIds[sender] ELSE <<>>
        kept == deleteCreatures(r.creatures, mine)
        moved == transferCreatures(kept, target, sender)
        idx == IndexOf(r.joinOrder, target)
        replaced == IF idx >= 0 THEN [r.joinOrder EXCEPT ![idx + 1] = sender]
                    ELSE r.joinOrder
        order == LET keep == {i \in 1..Len(replaced) :
                                i - 1 = idx \/ replaced[i] # sender}
                 IN [k \in 1..Cardinality(keep) |-> replaced[Ascending(keep)[k]]]
        last == IF target \in DOMAIN r.lastCreatureIndexByPlayer
                  THEN MapSet(r.lastCreatureIndexByPlayer, sender,
                              r.lastCreatureIndexByPlayer[target])
                  ELSE r.lastCreatureIndexByPlayer
    IN [r EXCEPT !.creatures = moved,
                 !.createdOnJoinIds = MapDelete(@, sender),
                 !.joinOrder = order,
                 !.lastCreatureIndexByPlayer = MapDelete(last, target),
                 !.activePlayerSessionId = IF @ = target THEN sender ELSE @,
                 !.playerNames = @ \ {target},
                 !.disconnectedUntil = MapDelete(@, target)]

\* onMessage("kill")
onKill(r, sender, creatureId, crateId) ==
  IF creatureId \notin DOMAIN r.creatures THEN r
  ELSE IF r.creatures[creatureId].ownerSessionId # sender
          /\ sender # r.activePlayerSessionId THEN r
  ELSE LET gone == [r EXCEPT !.creatures = MapDelete(@, creatureId)]
       IN IF r.activeCreatureId = creatureId
            THEN advanceTurn(gone, crateId)
            ELSE checkWinCondition(gone)

\* onMessage("endTurn")
onEndTurn(r, sender, crateId) ==
  IF sender = r.activePlayerSessionId THEN advanceTurn(r, crateId) ELSE r

\* ------------------------------------------------------ onJoin / onLeave

\* onJoin; newIds are the ids generateId returns for the three creatures
RECURSIVE createCreatures(_, _, _)
createCreatures(r, sessionId, newIds) ==
  IF newIds = <<>> THEN r
  ELSE LET id == Head(newIds)
           created == IF sessionId \in DOMAIN r.createdOnJoinIds
                        THEN r.createdOnJoinIds[sessionId] ELSE <<>>
       IN createCreatures(
            [r EXCEPT !.creatures = MapSet(@, id, [ownerSessionId |-> sessionId,
                                                   hp |-> initialHp]),
                      !.creatureBodies = @ \cup {id},
                      !.createdOnJoinIds = MapSet(@, sessionId, Append(created, id))],
            sessionId, Tail(newIds))

\* a join that starts a turn for the joiner whether or not a turn is running
onJoinAlwaysStartsTurn(r, sessionId, newIds, crateId) ==
  LET listed == [r EXCEPT !.joinOrder =
                   IF \E i \in 1..Len(@) : @[i] = sessionId THEN @
                   ELSE Append(@, sessionId),
                          !.playerNames = @ \cup {sessionId}]
  IN startTurn(createCreatures(listed, sessionId, newIds), sessionId, crateId)

onJoin(r, sessionId, newIds, crateId) ==
  LET listed == [r EXCEPT !.joinOrder =
                   IF \E i \in 1..Len(@) : @[i] = sessionId THEN @
                   ELSE Append(@, sessionId),
                          !.playerNames = @ \cup {sessionId}]
      made == createCreatures(listed, sessionId, newIds)
  IN IF made.activePlayerSessionId = ""
       THEN startTurn(made, sessionId, crateId)
       ELSE made

\* onLeave
onLeave(r, sessionId, crateId) ==
  LET left == [r EXCEPT !.joinOrder = SelectSeq(@, LAMBDA id : id # sessionId),
                        !.lastCreatureIndexByPlayer = MapDelete(@, sessionId),
                        !.disconnectedUntil =
                           MapSet(@, sessionId, r.now + disconnectGraceMs)]
      owners == distinctOwnersWithAlive(left)
      others == SelectSeq(owners, LAMBDA id : id # sessionId)
  IN IF Len(owners) = 2 /\ others # <<>>
       THEN [left EXCEPT !.winnerSessionId = others[1],
                         !.activePlayerSessionId = "",
                         !.activeCreatureId = NoCreature,
                         !.turnRemainingMs = 0]
     ELSE IF sessionId = left.activePlayerSessionId
       THEN advanceTurn(left, crateId)
       ELSE checkWinCondition(left)

\* ------------------------------------------------------------ fixedTick

\* a timeout check that only refreshes the countdown
tickTimeoutNeverAdvances(r, crateId) ==
  [r EXCEPT !.turnRemainingMs = Max(0, r.turnEndsAt - r.now)]

\* turn timeout
tickTimeout(r, crateId) ==
  LET t == [r EXCEPT !.turnRemainingMs = Max(0, r.turnEndsAt - r.now)]
  IN IF t.turnRemainingMs = 0 /\ t.activePlayerSessionId # ""
       THEN advanceTurn(t, crateId) ELSE t

\* skip an active player that is inside a grace window
tickSkipDisconnected(r, crateId) ==
  IF r.activePlayerSessionId # "" /\ isDisconnected(r, r.activePlayerSessionId)
    THEN advanceTurn(r, crateId) ELSE r

\* removal of one player whose grace expired
expirePlayer(r, sid, crateId) ==
  LET theirs == {c \in DOMAIN r.creatures : r.creatures[c].ownerSessionId = sid}
      purged == [r EXCEPT !.creatures = [c \in DOMAIN @ \ theirs |-> @[c]],
                          !.creatureBodies = @ \ theirs,
                          !.joinOrder = SelectSeq(@, LAMBDA id : id # sid),
                          !.lastCreatureIndexByPlayer = MapDelete(@, sid),
                          !.playerNames = @ \ {sid},
                          !.disconnectedUntil = MapDelete(@, sid)]
  IN IF sid = purged.activePlayerSessionId THEN advanceTurn(purged, crateId)
     ELSE purged

RECURSIVE expireAll(_, _, _)
expireAll(r, expired, crateId) ==
  IF expired = <<>> THEN r
  ELSE expireAll(expirePlayer(r, Head(expired), crateId), Tail(expired), crateId)

\* The expired entries of disconnectedUntil in the order the map yields them:
\* entries are inserted in the order of the leaves, that is by increasing
\* timestamp; entries of the same millisecond are taken in connection order.
RECURSIVE expiredIn(_, _)
expiredIn(r, pending) ==
  IF pending = {} THEN <<>>
  ELSE LET first == CHOOSE k \in pending : \A j \in pending :
                      \/ r.disconnectedUntil[SessionPool[k]]
                           < r.disconnectedUntil[SessionPool[j]]
                      \/ /\ r.disconnectedUntil[SessionPool[k]]
                              = r.disconnectedUntil[SessionPool[j]]
                         /\ k <= j
       IN <<SessionPool[first]>> \o expiredIn(r, pending \ {first})

\* an expiry that waits until the grace timestamp lies in the past
tickExpireStrictlyLater(r, crateId) ==
  LET pending == {k \in 1..Len(SessionPool) :
                    /\ SessionPool[k] \in DOMAIN r.disconnectedUntil
                    /\ r.now > r.disconnectedUntil[SessionPool[k]]}
  IN expireAll(r, expiredIn(r, pending), crateId)

tickExpire(r, crateId) ==
  LET pending == {k \in 1..Len(SessionPool) :
                    /\ SessionPool[k] \in DOMAIN r.disconnectedUntil
                    /\ r.now >= r.disconnectedUntil[SessionPool[k]]}
  IN expireAll(r, expiredIn(r, pending), crateId)

\* the creature whose body the tick pushes: the active creature, if it has a
\* body (NoCreature otherwise)
inputBody(r) ==
  IF r.activeCreatureId # NoCreature /\ r.activeCreatureId \in r.creatureBodies
    THEN r.activeCreatureId ELSE NoCreature

\* the horizontal force of the tick in units of 0.0015
forceX(r) ==
  (IF r.latestInput.left THEN -1 ELSE 0) + (IF r.latestInput.right THEN 1 ELSE 0)

\* an input application that leaves the jump queued
tickApplyInputKeepsJump(r) == r

\* input forces: the only state they leave behind is the consumed jump
tickApplyInput(r) ==
  IF r.activeCreatureId # NoCreature /\ r.activeCreatureId \in r.creatureBodies
    THEN [r EXCEPT !.jumpQueued = FALSE]
    ELSE r

\* a drown removal that hands the turn to another creature of the same player
drownOneReassigns(r, id, crateId) ==
  LET wasActive == id = r.activeCreatureId
      gone == removeCreatureBody(
                [r EXCEPT !.creatures = [c \in DOMAIN @ \ {id} |-> @[c]]], id)
  IN IF wasActive /\ r.activePlayerSessionId \in OwnersOf(gone.creatures)
       THEN pickNextCreatureForPlayer(gone, r.activePlayerSessionId)
     ELSE IF wasActive THEN advanceTurn(gone, crateId)
     ELSE gone

\* a drown removal that leaves the body in the index
drownOneLeavingBody(r, id, crateId) ==
  LET wasActive == id = r.activeCreatureId
      gone == [r EXCEPT !.creatures = [c \in DOMAIN @ \ {id} |-> @[c]]]
  IN IF wasActive THEN advanceTurn(gone, crateId) ELSE gone

\* drown check; sunk: the bodies the physics step left below waterline + 10
drownOne(r, id, crateId) ==
  LET wasActive == id = r.activeCreatureId
      gone == removeCreatureBody(
                [r EXCEPT !.creatures = [c \in DOMAIN @ \ {id} |-> @[c]]], id)
  IN IF wasActive THEN advanceTurn(gone, crateId) ELSE gone

RECURSIVE drownAll(_, _, _)
drownAll(r, toDelete, crateId) ==
  IF toDelete = <<>> THEN r
  ELSE drownAll(drownOne(r, Head(toDelete), crateId), Tail(toDelete), crateId)

tickDrown(r, sunk, crateId) ==
  drownAll(r, Ascending(sunk \cap r.creatureBodies), crateId)

\* snapshot broadcast
tickSnapshot(r) ==
  IF r.now - r.lastSnapshotAt >= snapshotIntervalMs
    THEN [r EXCEPT !.lastSnapshotAt = r.now] ELSE r

\* the room of a tick at the moment the input is applied
roomAtInput(r, crateId) ==
  tickExpire(tickSkipDisconnected(tickTimeout(r, crateId), crateId), crateId)

\* the tick applies the jump impulse (line 339)
jumpApplied(r, crateId) ==
  inputBody(roomAtInput(r, crateId)) # NoCreature /\ roomAtInput(r, crateId).jumpQueued

\* the room of a tick when Engine.update runs
roomAtPhysics(r, crateId) == tickApplyInput(roomAtInput(r, crateId))

\* the bodies Engine.update integrates: the creature and crate bodies are
\* dynamic bodies under gravity (the terrain segments alone are static); a
\* crate is spawned in the air at y = -200 and falls from there
steppedBodies(r) == [creature |-> r.creatureBodies, crate |-> r.crateBodies]

\* the mirror loop: the objects whose replicated x, y are set to the position
\* of their body; it runs over creatureBodies only
mirroredObjects(r) ==
  [creature |-> {id \in r.creatureBodies : id \in DOMAIN r.creatures},
   crate |-> {}]

\* the room of a tick when it reaches the snapshot broadcast
roomAtSnapshot(r, sunk, crateId) ==
  tickDrown(tickApplyInput(roomAtInput(r, crateId)), sunk, crateId)

\* the test of line 370: a snapshot is due
snapshotDue(r) == r.now - r.lastSnapshotAt >= snapshotIntervalMs

\* the ids of the objects of the snapshot message, by type
snapshotObjects(r) == [creature |-> r.creatureBodies, crate |-> r.crateBodies]

fixedTick(r, sunk, crateId) ==
  tickSnapshot(
    tickDrown(
      tickApplyInput(
        tickExpire(
          tickSkipDisconnected(
            tickTimeout(r, crateId), crateId), crateId)),
      sunk, crateId))

\* ---------------------------------------------------------------- inputs

\* hit lists of at most MaxHits entries; an id may name no creature
HitTargets == DOMAIN creatures \cup {NoCreature}
Hit == [id : HitTargets, dmg : DmgValues]
HitLists == UNION {[1..n -> Hit] : n \in 0..MaxHits}

\* The lists the model sends: every list from the active session; one list
\* from any other session and one payload that is no array (the handler
\* returns before it reads either).
SentHitLists(s, isArray) ==
  IF isArray /\ s = activePlayerSessionId THEN HitLists ELSE {<<>>}

\* outcomes of the physics step: the bodies that ended below the drown line
SunkSets == {S \in SUBSET creatureBodies : Cardinality(S) <= MaxSunk}

\* the ids of the creatures made for the next session to connect
NewCreatureIds == [i \in 1..creaturesPerJoin |-> creaturesPerJoin * joined + i]

\* Colyseus disposes a room (and stops its simulation interval) when its last
\* client has left.
Disposed == joined > 0 /\ clients = {}

\* --------------------------------------------------------------- actions

\* the room after onCreate
Created ==
  [creatures |-> EmptyMap,
   activePlayerSessionId |-> "",
   activeCreatureId |-> NoCreature,
   turnRemainingMs |-> 0,
   playerNames |-> {},
   disconnectedUntil |-> EmptyMap,
   winnerSessionId |-> "",
   crates |-> EmptyMap,
   weaponsByPlayer |-> EmptyMap,
   joinOrder |-> <<>>,
   lastCreatureIndexByPlayer |-> EmptyMap,
   turnEndsAt |-> 0,
   creatureBodies |-> {},
   crateBodies |-> {},
   lastSnapshotAt |-> 0,
   latestInput |-> [left |-> FALSE, right |-> FALSE, jump |-> FALSE],
   jumpQueued |-> FALSE,
   createdOnJoinIds |-> EmptyMap,
   now |-> 0]

\* the room after the first k sessions connected, one after the other
RECURSIVE Lobby(_, _)
Lobby(k, crateId) ==
  IF k = 0 THEN Created
  ELSE onJoin(Lobby(k - 1, crateId), SessionPool[k],
              [i \in 1..creaturesPerJoin |-> creaturesPerJoin * (k - 1) + i],
              crateId)

\* generateIslandTop: the samples from the left end of the span to the right
\* one.  The coordinates are kept as tokens: the x of sample i is the number
\* i, its y the number -(i + 1).  The island is modelled with MaxSegments
\* segments.
generateIslandTop ==
  [i \in 1..(Min(segments, MaxSegments) + 1) |-> [x |-> i - 1, y |-> 0 - i]]

\* the loop that pushes p.x, p.y of every sample into the array
flattened(pts) ==
  [k \in 1..(2 * Len(pts)) |->
     IF k % 2 = 1 THEN pts[(k + 1) \div 2].x ELSE pts[k \div 2].y]

\* the loop that reads the samples back from state.terrainPoints:
\* for (i = 0; i < length - 1; i += 2)
pairsOf(tp) ==
  [j \in 1..(Len(tp) \div 2) |-> [x |-> tp[2 * j - 1], y |-> tp[2 * j]]]

\* a collision terrain that lacks the segment of the first two samples
buildTerrainCollisionSkippingFirst(pts) ==
  IF Len(pts) < 2 THEN <<>>
  ELSE [i \in 1..(Len(pts) - 2) |-> [a |-> pts[i + 1], b |-> pts[i + 2]]]

\* buildTerrainCollision: one static segment under every two consecutive
\* samples
buildTerrainCollision(pts) ==
  IF Len(pts) < 2 THEN <<>>
  ELSE [i \in 1..(Len(pts) - 1) |-> [a |-> pts[i], b |-> pts[i + 1]]]

\* the terrain part of onCreate
onCreateTerrain ==
  /\ terrainPoints = flattened(generateIslandTop)
  /\ waterline = initialWaterline
  /\ terrainBodies = buildTerrainCollision(pairsOf(terrainPoints))

\* A run starts when the room was created and some sessions have connected.
Init ==
  \E k \in 0..MaxLobby, crateId \in CrateIds :
    /\ onCreateTerrain
    /\ creatures = Lobby(k, crateId).creatures
    /\ activePlayerSessionId = Lobby(k, crateId).activePlayerSessionId
    /\ activeCreatureId = Lobby(k, crateId).activeCreatureId
    /\ turnRemainingMs = Lobby(k, crateId).turnRemainingMs
    /\ playerNames = Lobby(k, crateId).playerNames
    /\ disconnectedUntil = Lobby(k, crateId).disconnectedUntil
    /\ winnerSessionId = Lobby(k, crateId).winnerSessionId
    /\ crates = Lobby(k, crateId).crates
    /\ weaponsByPlayer = Lobby(k, crateId).weaponsByPlayer
    /\ joinOrder = Lobby(k, crateId).joinOrder
    /\ lastCreatureIndexByPlayer = Lobby(k, crateId).lastCreatureIndexByPlayer
    /\ turnEndsAt = Lobby(k, crateId).turnEndsAt
    /\ creatureBodies = Lobby(k, crateId).creatureBodies
    /\ crateBodies = Lobby(k, crateId).crateBodies
    /\ lastSnapshotAt = Lobby(k, crateId).lastSnapshotAt
    /\ latestInput = Lobby(k, crateId).latestInput
    /\ jumpQueued = Lobby(k, crateId).jumpQueued
    /\ createdOnJoinIds = Lobby(k, crateId).createdOnJoinIds
    /\ now = Lobby(k, crateId).now
    /\ clients = {SessionPool[i] : i \in 1..k}
    /\ joined = k
    /\ handled = 0

\* the room after the first k sessions connected and the last m of them left
\* again, the latest first
RECURSIVE Departed(_, _, _)
Departed(k, m, crateId) ==
  IF m = 0 THEN Lobby(k, crateId)
  ELSE onLeave(Departed(k, m - 1, crateId), SessionPool[k - m + 1], crateId)

\* the room of InitPresence: after the departures, the next session may have
\* connected
Aftermath(k, m, late, crateId) ==
  IF late
    THEN onJoin(Departed(k, m, crateId), SessionPool[k + 1],
                [i \in 1..creaturesPerJoin |-> creaturesPerJoin * k + i], crateId)
    ELSE Departed(k, m, crateId)

\* A run of SpecPresence starts when some sessions have connected, some of
\* them have left (at least one stays, so the room is not disposed) and
\* possibly one more session has connected after that; at most MaxLobby
\* sessions have connected in all.
InitPresence ==
  \E k \in 2..MaxLobby, crateId \in CrateIds :
    \E m \in 1..(k - 1), late \in {b \in BOOLEAN : b => k < MaxLobby} :
      LET room == Aftermath(k, m, late, crateId) IN
      /\ onCreateTerrain
      /\ creatures = room.creatures
      /\ activePlayerSessionId = room.activePlayerSessionId
      /\ activeCreatureId = room.activeCreatureId
      /\ turnRemainingMs = room.turnRemainingMs
      /\ playerNames = room.playerNames
      /\ disconnectedUntil = room.disconnectedUntil
      /\ winnerSessionId = room.winnerSessionId
      /\ crates = room.crates
      /\ weaponsByPlayer = room.weaponsByPlayer
      /\ joinOrder = room.joinOrder
      /\ lastCreatureIndexByPlayer = room.lastCreatureIndexByPlayer
      /\ turnEndsAt = room.turnEndsAt
      /\ creatureBodies = room.creatureBodies
      /\ crateBodies = room.crateBodies
      /\ lastSnapshotAt = room.lastSnapshotAt
      /\ latestInput = room.latestInput
      /\ jumpQueued = room.jumpQueued
      /\ createdOnJoinIds = room.createdOnJoinIds
      /\ now = room.now
      /\ clients = {SessionPool[i] : i \in 1..(k - m)}
                     \cup (IF late THEN {SessionPool[k + 1]} ELSE {})
      /\ joined = IF late THEN k + 1 ELSE k
      /\ handled = 0

\* every event counts towards the length of the run
Counted == handled < MaxEvents /\ handled' = handled + 1

Env == UNCHANGED <<clients, joined>>

Join ==
  /\ Counted
  /\ ~Disposed
  /\ joined < NumSessions
  /\ Cardinality(clients) < maxClients
  /\ \E crateId \in CrateIds :
       Becomes(onJoin(Room, SessionPool[joined + 1], NewCreatureIds, crateId))
  /\ clients' = clients \cup {SessionPool[joined + 1]}
  /\ joined' = joined + 1

Leave ==
  /\ Counted
  /\ \E s \in clients, crateId \in CrateIds :
       /\ Becomes(onLeave(Room, s, crateId))
       /\ clients' = clients \ {s}
       /\ joined' = joined

MsgInput ==
  /\ Counted
  /\ \E s \in clients, left \in BOOLEAN, right \in BOOLEAN :
       Becomes(onInput(Room, s, left, right))
  /\ Env

MsgJump ==
  /\ Counted
  /\ \E s \in clients : Becomes(onJump(Room, s))
  /\ Env

MsgPickupCrate ==
  /\ Counted
  /\ \E s \in clients, crateId \in CrateIds \cup {NoCrate},
        by \in Sessions \cup {"", "ghost"} :
       Becomes(onPickupCrate(Room, s, crateId, by))
  /\ Env

MsgConsumeWeapon ==
  /\ Counted
  /\ \E s \in clients : Becomes(onConsumeWeapon(Room, s))
  /\ Env

MsgApplyDamage ==
  /\ Counted
  /\ \E s \in clients, isArray \in BOOLEAN, crateId \in CrateIds :
       \E hits \in SentHitLists(s, isArray) :
         Becomes(onApplyDamage(Room, s, isArray, hits, crateId))
  /\ Env

MsgTakeover ==
  /\ Counted
  /\ \E s \in clients, target \in Sessions \cup {""} :
       Becomes(onTakeover(Room, s, target))
  /\ Env

MsgKill ==
  /\ Counted
  /\ \E s \in clients, creatureId \in HitTargets, crateId \in CrateIds :
       Becomes(onKill(Room, s, creatureId, crateId))
  /\ Env

MsgEndTurn ==
  /\ Counted
  /\ \E s \in clients, crateId \in CrateIds :
       Becomes(onEndTurn(Room, s, crateId))
  /\ Env

Tick ==
  /\ Counted
  /\ ~Disposed
  /\ \E sunk \in SunkSets, crateId \in CrateIds :
       Becomes(fixedTick(Room, sunk, crateId))
  /\ Env

ClockAdvance ==
  /\ Counted
  /\ \E d \in ClockSteps :
       /\ now' = now + d
  /\ UNCHANGED <<creatures, activePlayerSessionId, activeCreatureId,
                 turnRemainingMs, playerNames, disconnectedUntil,
                 winnerSessionId, crates, weaponsByPlayer, joinOrder,
                 lastCreatureIndexByPlayer, turnEndsAt, creatureBodies,
                 crateBodies, lastSnapshotAt, latestInput, jumpQueued,
                 createdOnJoinIds, terrainPoints, waterline, terrainBodies,
                 clients, joined>>

Next ==
  \/ Join
  \/ Leave
  \/ MsgInput
  \/ MsgJump
  \/ MsgPickupCrate
  \/ MsgConsumeWeapon
  \/ MsgApplyDamage
  \/ MsgTakeover
  \/ MsgKill
  \/ MsgEndTurn
  \/ Tick
  \/ ClockAdvance

Spec == Init /\ [][Next]_vars

SpecPresence == InitPresence /\ [][Next]_vars

\* ------------------------------------------------- runs with graded damage

\* dmg fields of every kind the clamp distinguishes: negative, not numeric,
\* partial, above the cap
GradedDmgValues == {Numeric(-40), NotNumeric, Numeric(30), Numeric(60), Numeric(250)}
GradedHit == [id : HitTargets, dmg : GradedDmgValues]
GradedHitLists(n) == UNION {[1..k -> GradedHit] : k \in 0..n}

\* applyDamage with a graded hit list
MsgApplyDamageGraded ==
  /\ Counted
  /\ \E s \in clients, crateId \in CrateIds :
       \E hits \in IF s = activePlayerSessionId
                     THEN GradedHitLists(MaxGradedHits) ELSE {<<>>} :
         Becomes(onApplyDamage(Room, s, TRUE, hits, crateId))
  /\ Env

\* the runs of SpecDamage: explosions of any strength and handed-over turns
NextDamage ==
  \/ MsgApplyDamageGraded
  \/ MsgEndTurn

SpecDamage == Init /\ [][NextDamage]_vars

\* ------------------------------------------------ runs of unbounded length

\* The room r seen d milliseconds later on every clock: the handlers only
\* compare the epoch timestamps with Date.now() or subtract them from it, so
\* a room and its shifted copy behave alike (TimeTranslation).
Shifted(r, d) ==
  [r EXCEPT !.now = @ - d,
            !.turnEndsAt = @ - d,
            !.lastSnapshotAt = @ - d,
            !.disconnectedUntil = [s \in DOMAIN @ |-> @[s] - d]]

\* A turn length passes, then the simulation interval fires; no body sinks.
\* The epoch is moved along with the clock, so that now keeps its value.
turnElapses(r, crateId) ==
  Shifted(fixedTick([r EXCEPT !.now = @ + turnDurationMs], {}, crateId),
          turnDurationMs)

\* a turn times out while a turn is running; runs of any length visit
\* finitely many states
TurnElapses ==
  /\ ~Disposed
  /\ activePlayerSessionId # ""
  /\ \E crateId \in CrateIds : Becomes(turnElapses(Room, crateId))
  /\ UNCHANGED <<clients, joined, handled>>

\* the runs of SpecRotation: the player set changes a bounded number of
\* times (joins, leaves, takeovers), turns time out without bound
NextRotation ==
  \/ Join
  \/ Leave
  \/ MsgTakeover
  \/ TurnElapses

\* the simulation interval keeps firing (setSimulationInterval)
SpecRotation == Init /\ [][NextRotation]_vars /\ WF_vars(TurnElapses)

\* ================================================================ claims

\* The claims about a handler are stated over the states in which the run
\* still delivers an event, so that each of them speaks about the events
\* the runs of Spec contain.
Delivering == handled < MaxEvents

\* every payload a client may put into a message (not only those the model sends)
InputPayloads == [left : BOOLEAN, right : BOOLEAN]
PickupCrateIds == CrateIds \cup {NoCrate}
PickupSessions == Sessions \cup {"", "ghost"}

\* the state the turn-scoped messages act on
TurnScopedState(r) ==
  [activePlayerSessionId |-> r.activePlayerSessionId,
   activeCreatureId |-> r.activeCreatureId,
   turnEndsAt |-> r.turnEndsAt,
   turnRemainingMs |-> r.turnRemainingMs,
   creatures |-> r.creatures,
   creatureBodies |-> r.creatureBodies,
   crates |-> r.crates,
   crateBodies |-> r.crateBodies,
   weaponsByPlayer |-> r.weaponsByPlayer,
   latestInput |-> r.latestInput,
   jumpQueued |-> r.jumpQueued,
   winnerSessionId |-> r.winnerSessionId,
   joinOrder |-> r.joinOrder,
   lastCreatureIndexByPlayer |-> r.lastCreatureIndexByPlayer]

\* C1: in every reachable state, an input, jump, endTurn, applyDamage or
\* pickupCrate message from a connected session that is not the active player
\* leaves the active player, the active creature, the deadline, the creatures
\* and their HP, the crates, the weapon slots, the stored input and the
\* queued-jump flag as they were, whatever the payload.
C1_NonActiveSenderIsNoOp ==
  LET room == Room
      before == TurnScopedState(room)
      lists == HitLists
  IN \A s \in clients :
       (Delivering /\ s # activePlayerSessionId) =>
         /\ \A m \in InputPayloads :
              TurnScopedState(onInput(room, s, m.left, m.right)) = before
         /\ TurnScopedState(onJump(room, s)) = before
         /\ \A crateId \in CrateIds :
              TurnScopedState(onEndTurn(room, s, crateId)) = before
         /\ \A hits \in lists, crateId \in CrateIds :
              TurnScopedState(onApplyDamage(room, s, TRUE, hits, crateId)) = before
         /\ \A crateId \in CrateIds :
              TurnScopedState(onApplyDamage(room, s, FALSE, <<>>, crateId)) = before
         /\ \A crateId \in PickupCrateIds, by \in PickupSessions :
              TurnScopedState(onPickupCrate(room, s, crateId, by)) = before

\* C1 witness: a turn is running with a crate in the world, a jump of the
\* active player is queued, and a second session is connected that is not
\* the active player.
C1_Witness ==
  /\ activePlayerSessionId # ""
  /\ activeCreatureId \in DOMAIN creatures
  /\ DOMAIN crates # {}
  /\ jumpQueued
  /\ \E s \in clients : s # activePlayerSessionId

\* ---------------------------------------------------------------- C2

\* the players the rotation may select: owners of a living creature, in join
\* order, that are not inside a grace window
EligiblePlayers(r) ==
  SelectSeq(distinctOwnersWithAlive(r), LAMBDA id : ~isDisconnected(r, id))

\* the room after k endTurn messages, each sent by the player active then
RECURSIVE EndTurns(_, _, _)
EndTurns(r, k, crateId) ==
  IF k = 0 THEN r
  ELSE EndTurns(onEndTurn(r, r.activePlayerSessionId, crateId), k - 1, crateId)

\* With the set of eligible players unchanged and at least `fewest` of them,
\* the k-th of N endTurn messages makes the k-th successor (cyclically, in
\* join order) of the active player active, so that the N-th returns the turn.
RotationCloses(fewest) ==
  LET room == Room
      eligible == EligiblePlayers(room)
      N == Len(eligible)
      i0 == IndexOf(eligible, activePlayerSessionId)
  IN (Delivering /\ activePlayerSessionId # "" /\ i0 >= 0 /\ N >= fewest) =>
       \A crateId \in CrateIds :
         /\ \A k \in 1..N :
              EndTurns(room, k, crateId).activePlayerSessionId
                = eligible[((i0 + k) % N) + 1]
         /\ EndTurns(room, N, crateId).activePlayerSessionId
              = activePlayerSessionId

TimeoutHandsOver(always) ==
  LET room == Room
      eligible == EligiblePlayers(room)
      N == Len(eligible)
      i0 == IndexOf(eligible, activePlayerSessionId)
  IN (Delivering /\ activePlayerSessionId # "" /\ now >= turnEndsAt) =>
       \A sunk \in SunkSets, crateId \in CrateIds :
         LET after == fixedTick(room, sunk, crateId) IN
         /\ \/ after.activePlayerSessionId = ""
            \/ after.turnEndsAt = now + turnDurationMs
         /\ (/\ N >= 2
             /\ i0 >= 0
             /\ always \/ tickTimeout(room, crateId).activeCreatureId \notin sunk)
              => after.activePlayerSessionId = eligible[((i0 + 1) % N) + 1]

TurnChangesHands ==
  /\ activePlayerSessionId' # ""
  /\ activePlayerSessionId' # activePlayerSessionId

\* C4: every step that makes a new player active sets the deadline to
\* now + 30000 and turnRemainingMs to 30000, whatever deadline (also a
\* retreat window) the previous turn had.
C4_FreshDeadline ==
  [][TurnChangesHands =>
       /\ turnEndsAt' = now' + turnDurationMs
       /\ turnRemainingMs' = turnDurationMs]_vars

\* C4 witness: time has passed since the room was created, and the second
\* player holds a turn whose deadline is a full turn ahead.
C4_Witness ==
  /\ now > 0
  /\ activePlayerSessionId = "s2"
  /\ "s1" \in clients
  /\ turnEndsAt = now + turnDurationMs
  /\ turnRemainingMs = turnDurationMs

\* ---------------------------------------------------------------- C5

\* what C5 demands of the room `after` a handler or tick that eliminated the
\* active creature: if at least two players with living creatures remain (and
\* `always` or no other creature was eliminated with it), a turn runs and its
\* player is not the owner of the eliminated creature.
AdvancedToOther(after, always) ==
  (/\ activeCreatureId \notin DOMAIN after.creatures
   /\ Len(distinctOwnersWithAlive(after)) >= 2
   /\ always \/ DOMAIN creatures \ DOMAIN after.creatures = {activeCreatureId})
    => /\ after.activePlayerSessionId # ""
       /\ after.activePlayerSessionId # creatures[activeCreatureId].ownerSessionId
       /\ after.activePlayerSessionId # activePlayerSessionId

\* the elimination of the active creature by applyDamage or by drowning
ActiveCreatureElimination(always) ==
  LET room == Room
      lists == HitLists
  IN (/\ Delivering
      /\ activePlayerSessionId # ""
      /\ activeCreatureId \in DOMAIN creatures) =>
       /\ \A hits \in lists, crateId \in CrateIds :
            (\E i \in 1..Len(hits) : hits[i].id = activeCreatureId) =>
              LET after == onApplyDamage(room, activePlayerSessionId, TRUE,
                                         hits, crateId)
              IN AdvancedToOther(after, always)
       /\ \A sunk \in SunkSets, crateId \in CrateIds :
            activeCreatureId \in sunk =>
              LET after == fixedTick(room, sunk, crateId)
              IN AdvancedToOther(after, always)

C7_WinnerIsOnlyOwner ==
  [][(winnerSessionId' # "" /\ winnerSessionId' # winnerSessionId) =>
       OwnersOf(creatures') = {winnerSessionId'}]_vars

\* ---------------------------------------------------------------- C8

\* C8: a tick (before the deadline, with a turn running between at least two
\* owners of living creatures) in which creatures that are not the active
\* creature drown leaves the match decided if at most one owner with living
\* creatures remains: the winner is set and the turn does not go on.
C8_DrownReevaluatesWin ==
  LET room == Room
  IN (/\ Delivering
      /\ activePlayerSessionId # ""
      /\ winnerSessionId = ""
      /\ Len(distinctOwnersWithAlive(room)) >= 2
      /\ now < turnEndsAt) =>
       \A sunk \in SunkSets, crateId \in CrateIds :
         LET after == fixedTick(room, sunk, crateId)
             owners == distinctOwnersWithAlive(after)
         IN (/\ activeCreatureId \notin sunk
             /\ sunk \cap DOMAIN creatures # {}
             /\ Len(owners) <= 1)
              => /\ after.activePlayerSessionId = ""
                 /\ after.winnerSessionId = IF Len(owners) = 1 THEN owners[1] ELSE ""

\* ---------------------------------------------------------------- C9

\* C9: once winnerSessionId is set it never changes, no player becomes
\* active, and no crate is spawned.
C9_MatchOverIsTerminal ==
  [][winnerSessionId # "" =>
       /\ winnerSessionId' = winnerSessionId
       /\ activePlayerSessionId' = ""
       /\ DOMAIN crates' \subseteq DOMAIN crates]_vars

\* --------------------------------------------------------------- C10

\* C10: at most one crate exists at any time, and every step that starts a
\* turn leaves exactly one crate, in the replicated state and in the physics
\* world alike: the crates of earlier turns, picked up or not, are gone.
C10_CrateSingularity ==
  /\ Cardinality(DOMAIN crates) <= 1
  /\ crateBodies = DOMAIN crates
  /\ [][/\ Cardinality(DOMAIN crates') <= 1
        /\ crateBodies' = DOMAIN crates'
        /\ TurnChangesHands => Cardinality(DOMAIN crates') = 1]_vars

\* C10 witness: the first turn went by with its crate left in the world, and
\* the second player's turn has the one crate that was spawned for it.
C10_Witness ==
  /\ handled >= 1
  /\ activePlayerSessionId = "s2"
  /\ "s1" \in DOMAIN lastCreatureIndexByPlayer
  /\ lastCreatureIndexByPlayer["s1"] = 0
  /\ DOMAIN weaponsByPlayer = {}
  /\ Cardinality(DOMAIN crates) = 1
  /\ crateBodies = DOMAIN crates

\* --------------------------------------------------------------- C11

\* a turn is running and no winner is decided
MatchRunning(r) == r.winnerSessionId = "" /\ r.activePlayerSessionId # ""

\* C11: when a leave does not end the match (a turn is running when onLeave
\* returns), the creatures and their owners are as before, the leaver is
\* marked disconnected until now + 300000, and the turn order, with the
\* leaver's slot in it, is as before.
C11_LeaveRetainsPlayer ==
  LET room == Room
  IN Delivering =>
       \A s \in clients, crateId \in CrateIds :
         LET after == onLeave(room, s, crateId) IN
         MatchRunning(after) =>
           /\ after.creatures = creatures
           /\ s \in DOMAIN after.disconnectedUntil
           /\ after.disconnectedUntil[s] = now + disconnectGraceMs
           /\ after.joinOrder = joinOrder

\* --------------------------------------------------------------- C12

\* C12: in every state the active player, if there is one, is not inside a
\* disconnect grace window and owns at least one living creature.
C12_ActivePlayerEligible ==
  activePlayerSessionId # "" =>
    /\ ~isDisconnected(Room, activePlayerSessionId)
    /\ activePlayerSessionId \in OwnersOf(creatures)

\* --------------------------------------------------------------- C13

\* the creatures of the replicated state owned by sid
CreaturesOf(cs, sid) == {c \in DOMAIN cs : cs[c].ownerSessionId = sid}

\* C13: a tick that runs while a player's grace timestamp is still ahead
\* keeps the player's marker and name and every creature of the player that
\* did not drown in that tick; a tick that runs at or after the timestamp
\* leaves no creature of the player in the replicated state, none of their
\* bodies in the body index, no name and no marker, and the player is not
\* the active player afterwards.
C13_GraceExpiry ==
  LET room == Room
  IN Delivering =>
       \A sunk \in SunkSets, crateId \in CrateIds :
         LET after == fixedTick(room, sunk, crateId) IN
         \A sid \in DOMAIN disconnectedUntil :
           LET theirs == CreaturesOf(creatures, sid) IN
           /\ now < disconnectedUntil[sid] =>
                /\ \A c \in theirs \ sunk :
                     /\ c \in DOMAIN after.creatures
                     /\ after.creatures[c] = creatures[c]
                /\ sid \in DOMAIN after.disconnectedUntil
                /\ after.disconnectedUntil[sid] = disconnectedUntil[sid]
                /\ sid \in playerNames => sid \in after.playerNames
           /\ now >= disconnectedUntil[sid] =>
                /\ CreaturesOf(after.creatures, sid) = {}
                /\ theirs \cap after.creatureBodies = {}
                /\ sid \notin after.playerNames
                /\ sid \notin DOMAIN after.disconnectedUntil
                /\ after.activePlayerSessionId # sid

\* C13 witness: the second session left, its grace window went by, and a
\* tick removed its creatures with their bodies, its name and its marker; the
\* creatures of the first session are all there.
C13_Witness ==
  /\ now >= disconnectGraceMs
  /\ clients = {"s1"}
  /\ joined = 2
  /\ disconnectedUntil = EmptyMap
  /\ playerNames = {"s1"}
  /\ DOMAIN creatures = {1, 2, 3}
  /\ creatureBodies = {1, 2, 3}

\* --------------------------------------------------------------- C14

\* the takeover handler passes its checks: the target is named, is not the
\* sender, and is marked disconnected with a timestamp that lies ahead
TakeoverSucceeds(r, sender, target) ==
  /\ target # ""
  /\ target # sender
  /\ target \in DOMAIN r.disconnectedUntil
  /\ r.disconnectedUntil[target] > r.now

\* the number of times sid occurs in the turn order
Occurrences(order, sid) == Cardinality({i \in 1..Len(order) : order[i] = sid})

\* C14: after a successful takeover of Y by X, X occurs exactly once in the
\* turn order, Y does not occur, and the other players are in the order they
\* were in.  (The position Y held is no part of the room's state once Y has
\* left, so the formula asks for less than the claim: that X has a slot.)
C14_TakeoverKeepsSlot ==
  LET room == Room
  IN Delivering =>
       \A x \in clients, y \in Sessions :
         TakeoverSucceeds(room, x, y) =>
           LET after == onTakeover(room, x, y) IN
           /\ Occurrences(after.joinOrder, x) = 1
           /\ Occurrences(after.joinOrder, y) = 0
           /\ SelectSeq(after.joinOrder, LAMBDA id : id # x)
                = SelectSeq(joinOrder, LAMBDA id : id \notin {x, y})

\* --------------------------------------------------------------- C15

\* C15: after a successful takeover of Y by X every creature Y owned is in
\* the replicated state, unchanged but for its owner, which is X; Y owns no
\* creature, has no name entry and no disconnect marker; if Y was the active
\* player, X is; the active creature id and the turn deadline are as before.
C15_TakeoverTransfers ==
  LET room == Room
  IN Delivering =>
       \A x \in clients, y \in Sessions :
         TakeoverSucceeds(room, x, y) =>
           LET after == onTakeover(room, x, y) IN
           /\ \A c \in CreaturesOf(creatures, y) :
                /\ c \in DOMAIN after.creatures
                /\ after.creatures[c] = [creatures[c] EXCEPT !.ownerSessionId = x]
           /\ CreaturesOf(after.creatures, y) = {}
           /\ y \notin after.playerNames
           /\ y \notin DOMAIN after.disconnectedUntil
           /\ activePlayerSessionId = y => after.activePlayerSessionId = x
           /\ after.activeCreatureId = activeCreatureId
           /\ after.turnEndsAt = turnEndsAt
           /\ after.turnRemainingMs = turnRemainingMs

\* C15 witness: the second session left and, inside its grace window, the
\* first took it over: the creatures made for the second session are the
\* first session's, and name and marker of the second are gone.
C15_Witness ==
  /\ now < disconnectGraceMs
  /\ clients = {"s1"}
  /\ joined = 2
  /\ DOMAIN creatures = {4, 5, 6}
  /\ OwnersOf(creatures) = {"s1"}
  /\ disconnectedUntil = EmptyMap
  /\ playerNames = {"s1"}

\* --------------------------------------------------------------- C16

\* C16: after a successful takeover of Y by X, the creatures X owns are
\* exactly the creatures Y owned before it, whatever X owned before.
C16_TakeoverSingleRoster ==
  LET room == Room
  IN Delivering =>
       \A x \in clients, y \in Sessions :
         TakeoverSucceeds(room, x, y) =>
           CreaturesOf(onTakeover(room, x, y).creatures, x)
             = CreaturesOf(creatures, y)

\* --------------------------------------------------------------- C17

\* the targets a takeover message may name
TakeoverTargets == Sessions \cup {"", "ghost"}

\* C17: a takeover message whose target is missing, is the sender, or is not
\* marked disconnected with a timestamp that lies ahead leaves the whole
\* room as it was.
C17_InvalidTakeoverIsNoOp ==
  LET room == Room
  IN Delivering =>
       \A x \in clients, y \in TakeoverTargets :
         ~TakeoverSucceeds(room, x, y) => onTakeover(room, x, y) = room

\* C17 witness: a session is connected while another one is still marked
\* disconnected although its grace window is over (no tick ran since), and
\* a third one is inside its grace window.
C17_Witness ==
  /\ Delivering
  /\ clients # {}
  /\ \E y \in DOMAIN disconnectedUntil : disconnectedUntil[y] <= now
  /\ \E y \in DOMAIN disconnectedUntil : disconnectedUntil[y] > now

\* --------------------------------------------------------------- C18

C19_ConsumeWeaponTurnScoped ==
  LET room == Room
  IN Delivering =>
       \A s \in clients :
         s # activePlayerSessionId =>
           LET after == onConsumeWeapon(room, s) IN
           /\ after.turnEndsAt = turnEndsAt
           /\ after.turnRemainingMs = turnRemainingMs
           /\ after.weaponsByPlayer = weaponsByPlayer

\* --------------------------------------------------------------- C20

\* C20: when exactly two sessions own living creatures, both of them are
\* connected and one of them leaves, onLeave returns with the other owner
\* as the winner and with no active player.
C20_TwoPlayerEndgame ==
  LET room == Room
  IN Delivering =>
       \A s \in clients, crateId \in CrateIds :
         (/\ Cardinality(OwnersOf(creatures)) = 2
          /\ OwnersOf(creatures) \subseteq clients
          /\ s \in OwnersOf(creatures)) =>
           LET after == onLeave(room, s, crateId) IN
           /\ {after.winnerSessionId} = OwnersOf(creatures) \ {s}
           /\ after.activePlayerSessionId = ""

\* --------------------------------------------------------------- C21

\* C21: while the match runs and three or more sessions own living
\* creatures, the leave of a connected owner does not end the match: when
\* onLeave returns no winner is set, the leaver carries a grace timestamp of
\* now + disconnectGraceMs, and the active player is a session that is still
\* connected and owns a living creature.
C21_LeaveOfThreeKeepsMatch ==
  LET room == Room
  IN Delivering =>
       \A s \in clients, crateId \in CrateIds :
         (/\ MatchRunning(room)
          /\ Cardinality(OwnersOf(creatures)) >= 3
          /\ s \in OwnersOf(creatures)) =>
           LET after == onLeave(room, s, crateId) IN
           /\ after.winnerSessionId = ""
           /\ s \in DOMAIN after.disconnectedUntil
           /\ after.disconnectedUntil[s] = now + disconnectGraceMs
           /\ after.activePlayerSessionId \in clients \ {s}
           /\ after.activePlayerSessionId \in OwnersOf(after.creatures)

\* --------------------------------------------------------------- C22

\* the damage the claim counts for a dmg field
CountedDamage(dmg) == Min(maxDmg, Max(0, IF dmg.nan THEN 0 ELSE dmg.n))

\* the HP the claim gives creature id after the hits of a list, one by one
RECURSIVE HpAfterHits(_, _, _)
HpAfterHits(hp, id, hits) ==
  IF hits = <<>> THEN hp
  ELSE HpAfterHits(IF Head(hits).id = id
                     THEN Max(0, hp - CountedDamage(Head(hits).dmg)) ELSE hp,
                   id, Tail(hits))

\* C22: when applyDamage from the active session returns, every creature
\* that is still in the replicated state has the HP that results from
\* applying max(0, HP - min(200, max(0, dmg))) for each of its hits in turn
\* (a dmg that is not numeric counts 0); no HP is greater than before; every
\* remaining creature has 0 < HP <= 100; and exactly the creatures whose HP
\* reached 0 are gone.
C22_DamageArithmetic ==
  LET room == Room
  IN Delivering =>
       \A hits \in GradedHitLists(MaxHits) :
         activePlayerSessionId \in clients =>
           LET after == onApplyDamage(room, activePlayerSessionId, TRUE, hits,
                                      CHOOSE crateId \in CrateIds : TRUE) IN
           /\ DOMAIN after.creatures =
                {c \in DOMAIN creatures : HpAfterHits(creatures[c].hp, c, hits) > 0}
           /\ \A c \in DOMAIN after.creatures :
                /\ after.creatures[c].hp = HpAfterHits(creatures[c].hp, c, hits)
                /\ after.creatures[c].hp <= creatures[c].hp
                /\ after.creatures[c].hp > 0
                /\ after.creatures[c].hp <= initialHp
                /\ after.creatures[c].ownerSessionId = creatures[c].ownerSessionId

\* C22 witness: one creature was killed and another is left with partial HP
\* that two hits of different strength produced.
C22_Witness ==
  /\ Cardinality(DOMAIN creatures) < creaturesPerJoin * joined
  /\ \E c \in DOMAIN creatures : creatures[c].hp = initialHp - 30 - 60

\* --------------------------------------------------------------- C23

\* the room when sessionId is active again: the active players end their
\* turns one after the other, at most n of them
RECURSIVE UntilActiveAgain(_, _, _, _)
UntilActiveAgain(r, sessionId, n, crateId) ==
  LET ended == onEndTurn(r, r.activePlayerSessionId, crateId) IN
  IF n <= 1 \/ ended.activePlayerSessionId \in {sessionId, ""} THEN ended
  ELSE UntilActiveAgain(ended, sessionId, n - 1, crateId)

\* the rooms at the next k times sessionId is active
RECURSIVE TurnsOf(_, _, _, _)
TurnsOf(r, sessionId, k, crateId) ==
  IF k = 0 THEN <<>>
  ELSE LET again == UntilActiveAgain(r, sessionId, Len(r.joinOrder), crateId)
       IN <<again>> \o TurnsOf(again, sessionId, k - 1, crateId)

\* the creature after c in the roster (a sequence without repetitions), cyclically
NextInRoster(roster, c) == roster[((IndexOf(roster, c) + 1) % Len(roster)) + 1]

\* C23: when the active player owns three creatures and is active again four
\* times, the other players' turns in between and nobody eliminated, the
\* creatures selected at these times follow the roster cyclically, starting
\* after the creature of the running turn: the first three are the three
\* creatures of the player and the fourth is the first again.
C23_CreatureRoundRobin ==
  LET room == Room
      p == activePlayerSessionId
      roster == Ascending(CreaturesOf(creatures, p))
  IN Delivering =>
       \A crateId \in CrateIds :
         LET turns == TurnsOf(room, p, creaturesPerJoin + 1, crateId)
             picked == [i \in 1..Len(turns) |-> turns[i].activeCreatureId]
         IN (/\ p # ""
             /\ Len(roster) = creaturesPerJoin
             /\ Len(distinctOwnersWithAlive(room)) >= 2
             /\ \A i \in 1..Len(turns) : turns[i].activePlayerSessionId = p) =>
              /\ {picked[i] : i \in 1..creaturesPerJoin} = CreaturesOf(creatures, p)
              /\ \A i \in 1..creaturesPerJoin :
                   picked[i + 1] = NextInRoster(roster, picked[i])
              /\ activeCreatureId \in CreaturesOf(creatures, p) =>
                   picked[1] = NextInRoster(roster, activeCreatureId)

\* C23 witness: a player is active for the second time, after another
\* player's turn, with the second creature of its roster.
C23_Witness ==
  /\ handled >= 2
  /\ activePlayerSessionId = "s1"
  /\ CreaturesOf(creatures, "s1") = {1, 2, 3}
  /\ activeCreatureId = 2
  /\ "s2" \in DOMAIN lastCreatureIndexByPlayer

\* --------------------------------------------------------------- C24

\* the first creature of `living` that follows c in the roster, cyclically;
\* c itself when no other creature of the roster is living
RECURSIVE FirstLivingAfter(_, _, _, _)
FirstLivingAfter(roster, c, living, n) ==
  LET next == NextInRoster(roster, c) IN
  IF n = 0 \/ next \in living THEN next
  ELSE FirstLivingAfter(roster, next, living, n - 1)

\* C24: the active player, whose running turn uses creature c of its
\* roster, loses another creature of the roster to an explosion and keeps at
\* least two; the next time that player is active, the creature chosen is the
\* first living creature after c in the roster, hence not c.
C24_NextLivingCreature ==
  LET room == Room
      p == activePlayerSessionId
      c == activeCreatureId
      roster == Ascending(CreaturesOf(creatures, p))
  IN Delivering =>
       \A victim \in CreaturesOf(creatures, p) \ {c}, crateId \in CrateIds :
         LET hit == onApplyDamage(room, p, TRUE,
                                  <<[id |-> victim, dmg |-> Numeric(initialHp)]>>, crateId)
             again == UntilActiveAgain(hit, p, Len(hit.joinOrder), crateId)
             living == CreaturesOf(hit.creatures, p)
         IN (/\ p \in clients
             /\ c \in CreaturesOf(creatures, p)
             /\ Cardinality(living) >= 2
             /\ hit.activePlayerSessionId = p
             /\ again.activePlayerSessionId = p) =>
              /\ again.activeCreatureId = FirstLivingAfter(roster, c, living, Len(roster))
              /\ again.activeCreatureId # c

\* --------------------------------------------------------------- C25

\* the session ids a pickupCrate message may name as the picker
PickerIds == Sessions \cup {"ghost"}

\* C25: pickupCrate from the active session for a crate of the world and a
\* picking session id gives that id's weapon slot the weapon of the crate,
\* whatever the slot held before, removes the crate from the replicated
\* state and its body from the body index, and leaves every other slot and
\* the rest of the room as they were.
C25_PickupGrantsWeapon ==
  LET room == Room
  IN Delivering =>
       \A crateId \in DOMAIN crates, by \in PickerIds :
         activePlayerSessionId \in clients =>
           LET after == onPickupCrate(room, activePlayerSessionId, crateId, by) IN
           /\ after.weaponsByPlayer =
                [s \in DOMAIN weaponsByPlayer \cup {by} |->
                   IF s = by THEN crates[crateId].weapon ELSE weaponsByPlayer[s]]
           /\ crateId \notin DOMAIN after.crates
           /\ crateId \notin after.crateBodies
           /\ after = [room EXCEPT !.weaponsByPlayer = after.weaponsByPlayer,
                                   !.crates = MapDelete(@, crateId),
                                   !.crateBodies = @ \ {crateId}]

\* C25 witness: a session holds the weapon of a crate that was picked up, no
\* crate and no crate body is left, and the turn of the picker goes on.
C25_Witness ==
  /\ \E s \in playerNames : s \in DOMAIN weaponsByPlayer /\ weaponsByPlayer[s] = "grenade"
  /\ crates = EmptyMap
  /\ crateBodies = {}
  /\ activePlayerSessionId # ""

\* --------------------------------------------------------------- C26

\* C26: pickupCrate from the active session whose bySessionId names no
\* player of the room (no session that joined and is still known to the
\* room) changes nothing: no weapon slot appears for that id and the crate
\* stays in the world.
C26_UnknownPickerIgnored ==
  LET room == Room
  IN Delivering =>
       \A crateId \in DOMAIN crates, by \in PickerIds \ (playerNames \cup clients) :
         activePlayerSessionId \in clients =>
           LET after == onPickupCrate(room, activePlayerSessionId, crateId, by) IN
           /\ by \notin DOMAIN after.weaponsByPlayer
           /\ crateId \in DOMAIN after.crates
           /\ after = room

\* --------------------------------------------------------------- C27

\* C27: when the next session joins a room that has no active player and no
\* winner, onJoin returns with the joiner active, one of the joiner's three
\* new creatures active, the deadline at now + turnDurationMs and exactly one
\* crate in the world; when it joins while a player is active, the active
\* player, the active creature, the deadline, the countdown and the crate
\* are as before.
C27_JoinStartsFirstTurn ==
  LET room == Room
      sid == SessionPool[joined + 1]
  IN (Delivering /\ ~Disposed /\ joined < NumSessions) =>
       \A crateId \in CrateIds :
         LET after == onJoin(room, sid, NewCreatureIds, crateId) IN
         /\ (activePlayerSessionId = "" /\ winnerSessionId = "") =>
              /\ after.activePlayerSessionId = sid
              /\ after.activeCreatureId \in CreaturesOf(after.creatures, sid)
              /\ Cardinality(CreaturesOf(after.creatures, sid)) = creaturesPerJoin
              /\ after.turnEndsAt = now + turnDurationMs
              /\ after.turnRemainingMs = turnDurationMs
              /\ Cardinality(DOMAIN after.crates) = 1
              /\ after.crateBodies = DOMAIN after.crates
         /\ activePlayerSessionId # "" =>
              /\ after.activePlayerSessionId = activePlayerSessionId
              /\ after.activeCreatureId = activeCreatureId
              /\ after.turnEndsAt = turnEndsAt
              /\ after.turnRemainingMs = turnRemainingMs
              /\ after.crates = crates
              /\ after.crateBodies = crateBodies

\* C27 witness: the first session joined during the run and plays one of
\* its creatures with a full turn ahead and one crate in the world.
C27_Witness ==
  /\ handled = 1
  /\ joined = 1
  /\ activePlayerSessionId = "s1"
  /\ activeCreatureId \in CreaturesOf(creatures, "s1")
  /\ turnEndsAt = now + turnDurationMs
  /\ Cardinality(DOMAIN crates) = 1

\* --------------------------------------------------------------- C28

\* the handlers are indifferent to the epoch: a tick of the shifted room
\* yields the shifted room of the tick
TimeTranslation ==
  LET room == Room
  IN Delivering =>
       \A d \in ClockSteps, crateId \in CrateIds :
         fixedTick(Shifted(room, d), {}, crateId)
           = Shifted(fixedTick(room, {}, crateId), d)

\* session s is connected and owns a living creature while a turn is running
\* and no winner is decided
AwaitsTurn(s) ==
  /\ s \in clients
  /\ s \in OwnersOf(creatures)
  /\ winnerSessionId = ""
  /\ activePlayerSessionId # ""

\* the rooms after 1, 2, ..., k successive turn timeouts
RECURSIVE Timeouts(_, _, _)
Timeouts(r, k, crateId) ==
  IF k = 0 THEN <<>>
  ELSE <<turnElapses(r, crateId)>> \o Timeouts(turnElapses(r, crateId), k - 1, crateId)

\* session s awaits its turn in room r
AwaitsTurnIn(r, s) ==
  /\ s \in OwnersOf(r.creatures)
  /\ r.winnerSessionId = ""
  /\ r.activePlayerSessionId \notin {"", s}

\* C28: a connected session that owns a living creature in a running match
\* becomes the active player at some later time when the simulation
\* interval keeps firing while the clock advances: no sequence of turn
\* timeouts leads the room back to a state it was in before while the
\* match runs on and the session, still an owner, has not been active.
C28_EveryOwnerGetsTurn ==
  \A crateId \in CrateIds :
    LET rooms == <<Room>> \o Timeouts(Room, MaxTurnsWatched, crateId) IN
    \A s \in Sessions :
      AwaitsTurn(s) =>
        ~ \E j \in 2..Len(rooms) :
            /\ \A m \in 1..j : AwaitsTurnIn(rooms[m], s)
            /\ \E i \in 1..(j - 1) : rooms[i] = rooms[j]

\* --------------------------------------------------------------- C29

\* the players of `order` that follow the one at position idx (1-based),
\* in turn order, wrapping around
FollowersOf(order, idx) ==
  [k \in 1..(Len(order) - 1) |-> order[((idx - 1 + k) % Len(order)) + 1]]

\* C29: when the active player leaves and the turn advances, the new active
\* player is the first player after the leaver in join order (wrapping
\* around) that owns a living creature and is not inside a grace window.
C29_AdvanceAfterLeaveSkipsNobody ==
  LET room == Room
      s == activePlayerSessionId
  IN (Delivering /\ s \in clients /\ IndexOf(joinOrder, s) >= 0) =>
       \A crateId \in CrateIds :
         LET after == onLeave(room, s, crateId)
             followers == FollowersOf(joinOrder, IndexOf(joinOrder, s) + 1)
             eligible == SelectSeq(followers,
                           LAMBDA id : /\ id \in OwnersOf(after.creatures)
                                       /\ ~isDisconnected(after, id))
         IN (after.activePlayerSessionId # "" /\ eligible # <<>>) =>
              after.activePlayerSessionId = eligible[1]

\* --------------------------------------------------------------- C30

\* C30: the active player holds a direction and possibly queues a jump, then
\* ends its turn, and another player becomes active; the tick that follows,
\* before the new active player has sent anything, applies no horizontal
\* force and no jump impulse to the new active creature.
C30_NoInputAcrossTurns ==
  LET room == Room
      p == activePlayerSessionId
  IN (Delivering /\ p \in clients) =>
       \A left \in BOOLEAN, right \in BOOLEAN, jump \in BOOLEAN, crateId \in CrateIds :
         LET sent == onInput(room, p, left, right)
             queued == IF jump THEN onJump(sent, p) ELSE sent
             ended == onEndTurn(queued, p, crateId)
             atInput == tickExpire(
                          tickSkipDisconnected(
                            tickTimeout(ended, crateId), crateId), crateId)
         IN (/\ ended.activePlayerSessionId \notin {"", p}
             /\ atInput.activePlayerSessionId = ended.activePlayerSessionId
             /\ inputBody(atInput) # NoCreature) =>
              /\ forceX(atInput) = 0
              /\ ~atInput.jumpQueued

\* --------------------------------------------------------------- C31

\* a tick applies the impulse exactly when a request is queued and the
\* active creature has a body, and then the queue is empty; otherwise the
\* queue is as before the tick
TickConsumesJumpOnce ==
  LET room == Room
  IN (Delivering /\ ~Disposed) =>
       \A sunk \in SunkSets, crateId \in CrateIds :
         fixedTick(room, sunk, crateId).jumpQueued
           = (jumpQueued /\ ~jumpApplied(room, crateId))

\* a request is queued only by a jump message of the active player, and
\* leaves the queue only in a tick that applies it
JumpQueueStep ==
  /\ (~jumpQueued /\ jumpQueued') =>
       /\ activePlayerSessionId \in clients
       /\ Room' = onJump(Room, activePlayerSessionId)
  /\ (jumpQueued /\ ~jumpQueued') =>
       \E sunk \in SunkSets, crateId \in CrateIds :
         /\ jumpApplied(Room, crateId)
         /\ Room' = fixedTick(Room, sunk, crateId)

\* C31: the jump impulse is applied in a tick only if a jump message of the
\* active player was accepted since the last applied impulse; applying it
\* empties the queue, so one request gives at most one impulse; and a
\* pending request stays queued through every handler and every tick until
\* a tick in which the active creature has a body applies it.
C31_JumpQueuedOnce ==
  /\ ~jumpQueued
  /\ []TickConsumesJumpOnce
  /\ [][JumpQueueStep]_vars

\* C31 witness: a jump request is still pending after the turn of its
\* sender ended with nobody active, so no tick could apply it.
C31_Witness ==
  /\ jumpQueued
  /\ handled >= 2
  /\ activeCreatureId = NoCreature

\* --------------------------------------------------------------- C32

\* C32: in a tick in which the running turn has reached its deadline, the
\* input is applied before the scheduler changes the turn: the creature
\* whose body the tick pushes is the creature that was active when the tick
\* began.
C32_InputBeforeScheduler ==
  LET room == Room
  IN (Delivering /\ ~Disposed) =>
       \A crateId \in CrateIds :
         (/\ activePlayerSessionId # ""
          /\ now >= turnEndsAt
          /\ inputBody(room) # NoCreature) =>
           inputBody(roomAtInput(room, crateId)) = activeCreatureId

\* --------------------------------------------------------------- C33

\* what a tick broadcasts: a snapshot is sent exactly when 50 ms of clock
\* time have passed since the last one; it lists the bodies of the two
\* indices as the tick leaves them, none of them a creature the tick
\* removed; a tick that follows at the same clock time sends none
TickSnapshotSettled ==
  LET room == Room
  IN (Delivering /\ ~Disposed) =>
       \A sunk \in SunkSets, crateId \in CrateIds :
         LET before == roomAtSnapshot(room, sunk, crateId)
             after == fixedTick(room, sunk, crateId)
             removed == DOMAIN creatures \ DOMAIN after.creatures
         IN /\ snapshotDue(before) <=> now - lastSnapshotAt >= snapshotIntervalMs
            /\ snapshotDue(before) =>
                 /\ snapshotObjects(before).creature = after.creatureBodies
                 /\ snapshotObjects(before).crate = after.crateBodies
                 /\ snapshotObjects(before).creature \cap removed = {}
                 /\ after.lastSnapshotAt = now
                 /\ ~snapshotDue(after)
            /\ ~snapshotDue(before) => after.lastSnapshotAt = lastSnapshotAt

\* the time of the last snapshot changes in ticks only
SnapshotOnlyInTick ==
  lastSnapshotAt' # lastSnapshotAt =>
    \E sunk \in SunkSets, crateId \in CrateIds :
      Room' = fixedTick(Room, sunk, crateId)

\* C33: a snapshot is broadcast only by a tick, as its last step, and at
\* most once per 50 ms of clock time; it lists exactly the bodies that are
\* in the creature and crate indices after the drowning removals of that
\* tick, so no creature removed earlier in the tick appears in it.
C33_SnapshotSettled ==
  /\ []TickSnapshotSettled
  /\ [][SnapshotOnlyInTick]_vars

\* C33 witness: a tick at a later clock time has sent a snapshot after a
\* creature and its body were removed.
C33_Witness ==
  /\ now > 0
  /\ lastSnapshotAt = now
  /\ Cardinality(creatureBodies) < creaturesPerJoin * joined
  /\ creatureBodies = DOMAIN creatures

\* --------------------------------------------------------------- C35

\* C35: after every operation (join, leave, takeover, kill, applyDamage,
\* tick) the creatures that have a body in the physics index are exactly
\* the creatures of the replicated state.
C35_CreatureBodiesMatchState == creatureBodies = DOMAIN creatures

\* --------------------------------------------------------------- C36

\* C36: after every operation the crates that have a body in the physics
\* index are exactly the crates of the replicated state.
C36_CrateBodiesMatchState == crateBodies = DOMAIN crates

\* C36 witness: a crate was picked up and a later turn change spawned a
\* new one.
C36_Witness ==
  /\ crates # EmptyMap
  /\ crateBodies # {}
  /\ weaponsByPlayer # EmptyMap

\* --------------------------------------------------------------- C37

\* C37: whenever activeCreatureId is non-empty, the creature it names is in
\* the replicated state and is owned by activePlayerSessionId.
C37_ActiveCreatureOwned ==
  activeCreatureId # NoCreature =>
    /\ activeCreatureId \in DOMAIN creatures
    /\ creatures[activeCreatureId].ownerSessionId = activePlayerSessionId

\* --------------------------------------------------------------- C38

\* the session ids that key an entry of the per-player structures of r
PerPlayerKeys(r) ==
  {r.joinOrder[i] : i \in 1..Len(r.joinOrder)}
    \cup DOMAIN r.lastCreatureIndexByPlayer
    \cup r.playerNames
    \cup DOMAIN r.disconnectedUntil
    \cup DOMAIN r.weaponsByPlayer
    \cup DOMAIN r.createdOnJoinIds

\* C38: once a tick has purged a player whose grace period is over, or a
\* takeover has purged its target, no entry keyed by that session id is left
\* in the turn order, the last-creature index, playerNames,
\* disconnectedUntil, weaponsByPlayer or the created-on-join list.
C38_PurgeLeavesNoEntry ==
  LET room == Room
  IN (Delivering /\ ~Disposed) =>
       /\ \A sunk \in SunkSets, crateId \in CrateIds :
            \A sid \in DOMAIN disconnectedUntil :
              now >= disconnectedUntil[sid] =>
                sid \notin PerPlayerKeys(fixedTick(room, sunk, crateId))
       /\ \A x \in clients, y \in DOMAIN disconnectedUntil :
            TakeoverSucceeds(room, x, y) =>
              y \notin PerPlayerKeys(onTakeover(room, x, y))

\* --------------------------------------------------------------- C40

\* C40: after every tick, whenever no player is active, turnRemainingMs
\* is 0.
C40_IdleCountdownIsZero ==
  LET room == Room
  IN (Delivering /\ ~Disposed) =>
       \A sunk \in SunkSets, crateId \in CrateIds :
         LET after == fixedTick(room, sunk, crateId)
         IN after.activePlayerSessionId = "" => after.turnRemainingMs = 0

\* --------------------------------------------------------------- C34

\* C34: after every tick the replicated position of each creature and of
\* each crate is the position of its body after the physics step of that
\* tick: every object of the replicated state whose body the physics step
\* has integrated is one the mirror loop has copied.  (An object the tick
\* spawns after the physics step gets the coordinates its body is created
\* with.  The new crate id is taken fresh, so that a crate of the state
\* after the tick is the crate of that id at the physics step.)
C34_ReplicatedPositionsFollowBodies ==
  LET room == Room
  IN (Delivering /\ ~Disposed) =>
       \A sunk \in SunkSets, crateId \in CrateIds \ DOMAIN crates :
         LET stepped == steppedBodies(roomAtPhysics(room, crateId))
             mirrored == mirroredObjects(roomAtPhysics(room, crateId))
             after == fixedTick(room, sunk, crateId)
         IN /\ DOMAIN after.creatures \cap stepped.creature \subseteq mirrored.creature
            /\ DOMAIN after.crates \cap stepped.crate \subseteq mirrored.crate

\* the creature half of C34, which the mirror loop provides
CreaturePositionsFollowBodies ==
  LET room == Room
  IN (Delivering /\ ~Disposed) =>
       \A sunk \in SunkSets, crateId \in CrateIds \ DOMAIN crates :
         LET stepped == steppedBodies(roomAtPhysics(room, crateId))
             mirrored == mirroredObjects(roomAtPhysics(room, crateId))
             after == fixedTick(room, sunk, crateId)
         IN DOMAIN after.creatures \cap stepped.creature \subseteq mirrored.creature

\* --------------------------------------------------------------- C39

\* the collision terrain is one segment under every two consecutive samples
\* of the replicated sequence, in the order of the samples
TerrainBuiltFromSamples ==
  /\ Len(terrainBodies) = (Len(terrainPoints) \div 2) - 1
  /\ \A i \in 1..Len(terrainBodies) :
       /\ terrainBodies[i].a = [x |-> terrainPoints[2 * i - 1],
                                 y |-> terrainPoints[2 * i]]
       /\ terrainBodies[i].b = [x |-> terrainPoints[2 * i + 1],
                                 y |-> terrainPoints[2 * i + 2]]

\* no step changes the terrain samples, the waterline or the collision
\* terrain
TerrainFixed == UNCHANGED <<terrainPoints, waterline, terrainBodies>>

\* C39: after onCreate no join, leave, takeover, message or tick changes
\* the terrain sample sequence or the waterline, and the collision terrain
\* of the server is built from exactly the samples of the replicated state.
C39_TerrainImmutable ==
  /\ Len(terrainPoints) = 2 * (Min(segments, MaxSegments) + 1)
  /\ waterline = initialWaterline
  /\ []TerrainBuiltFromSamples
  /\ [][TerrainFixed]_vars

\* C39 witness: a session has left, the clock has moved on and a tick has
\* sent a snapshot, and the island is there with its collision segments.
C39_Witness ==
  /\ Len(terrainBodies) = Min(segments, MaxSegments)
  /\ waterline = initialWaterline
  /\ disconnectedUntil # EmptyMap
  /\ now > 0
  /\ lastSnapshotAt = now

====
